---- MODULE Spec2Model ----
(***************************************************************************)
(* Model of the context/extension composition engine of                    *)
(* @deessejs/functions: defineContext(...).withExtensions(...).createAPI   *)
(* (context/define.ts), the rpc extension's query and mutation endpoints   *)
(* (extensions/rpc.ts), the activation of createNativeAPI                  *)
(* (context/native.ts) and the outcome types Result (types/result.ts) and  *)
(* Maybe (types/try.ts).                                                   *)
(*                                                                         *)
(* JavaScript is single-threaded: every action below is one synchronous    *)
(* run of code up to the next await, and concurrent endpoint calls         *)
(* interleave only at those awaits.                                        *)
(***************************************************************************)
EXTENDS Integers, Sequences, FiniteSets, Bags, TLC

VARIABLES
    extensions,   \* the list given to withExtensions: a sequence of extension kinds
    apis,         \* the activated APIs createAPI has returned, in order
    heap,         \* the objects returned by init, by address
    calls,        \* the endpoint calls in flight: a bag of call records
    started,      \* the number of endpoint calls made so far
    done,         \* the endpoint call completed by the step just taken, if any
    lastCreate,   \* the createAPI call made by the step just taken, if any
    invoked,      \* how often the callbacks given to the engine have been invoked
    built,        \* the value the builder or constructor used last has returned
    given         \* the context objects the caller gave to the engine, as they are now

vars == <<extensions, apis, heap, calls, started, done, lastCreate, invoked,
          built, given>>

----------------------------------------------------------------------------
(* Bounds of the model *)

MaxExts == 2
MaxAPIs == 2
MaxCalls == 2
MaxSeqCalls == 3

----------------------------------------------------------------------------
(* Outcome types: success / failure / match *)

Undefined == "undefined"

success(value) ==
    [tag |-> "Success", value |-> value, error |-> Undefined]

failure(error) ==
    [tag |-> "Failure", value |-> Undefined, error |-> error]

\* The own properties of the object success or failure returns.
ownKeys(r) ==
    IF r.tag = "Success"
        THEN {"_tag", "value", "isSuccess", "isFailure", "match"}
        ELSE {"_tag", "error", "isSuccess", "isFailure", "match"}

\* r[key] for a key that holds data: a property that is not there reads
\* undefined.
get(r, key) ==
    IF key \notin ownKeys(r) THEN Undefined
    ELSE CASE key = "_tag" -> r.tag
           [] key = "value" -> r.value
           [] key = "error" -> r.error
           [] OTHER -> "function"

\* if (v): undefined is falsy, the strings used here are not.
truthy(v) == v # Undefined

\* A promise that has not settled, and one that rejected with an error.
Pending ==
    [tag |-> "Pending", value |-> Undefined, error |-> Undefined]

rejected(error) ==
    [tag |-> "Rejected", value |-> Undefined, error |-> error]

\* match, were a Failure to run onSuccess too.
matchAlwaysSuccess(r, onSuccess, onFailure) ==
    onSuccess

\* r.match({onSuccess, onFailure}): a Success runs onSuccess, a Failure onFailure.
match(r, onSuccess, onFailure) ==
    IF r.tag = "Success" THEN onSuccess ELSE onFailure

\* r.isSuccess() and r.isFailure(), as the object success or failure built
\* answers them.
isSuccess(r) == r.tag = "Success"

isFailure(r) == r.tag = "Failure"

\* A call of a handler given to match.
Invocation(name, arg) == [handler |-> name, arg |-> arg]

\* match, were the handlers taken the wrong way round.
matchInvokesSwapped(r) ==
    IF r.tag = "Success"
        THEN <<Invocation("onFailure", r.error)>>
        ELSE <<Invocation("onSuccess", r.value)>>

\* The calls r.match(handlers) makes: handlers.onSuccess(value) for a Success,
\* handlers.onFailure(error) for a Failure.
matchInvokes(r) ==
    match(r, <<Invocation("onSuccess", r.value)>>, <<Invocation("onFailure", r.error)>>)

\* Maybe: some / none
some(value) == [tag |-> "Some", value |-> value]

none == [tag |-> "None", value |-> Undefined]

isSome(m) == m.tag = "Some"

isNone(m) == m.tag = "None"

\* The calls m.match(handlers) makes: onSome(value) for a Some, onNone() for None.
maybeMatchInvokes(m) ==
    IF m.tag = "Some"
        THEN <<Invocation("onSome", m.value)>>
        ELSE <<Invocation("onNone", Undefined)>>

----------------------------------------------------------------------------
(* Schema validation *)

Inputs == {"bad", "ID1"}

\* ... and an input that leaves out a field for which the schema has a default.
InputsWithDefault == Inputs \cup {"Alice"}

\* The schema's output for a valid input: the transformed value, and the
\* value with the default filled in.
schemaOutput(input) ==
    CASE input = "ID1" -> "id1"
      [] input = "Alice" -> "Alice,user"
      [] OTHER -> input

\* The function getContext, when it is what an endpoint is given as its input.
GetContext == "getContext"

parseArgs(input) ==
    IF input \in {"bad", GetContext}
        THEN failure("ValidatedArgsError")
        ELSE success(schemaOutput(input))

----------------------------------------------------------------------------
(* Contexts: objects, as functions from their own keys to values *)

EmptyCtx == [k \in {} |-> 0]

\* { ...base }
spread(base) ==
    [k \in DOMAIN base |-> base[k]]

\* The merge, were the fragment dropped: ctx = { ...ctx }.
mergeKeepsCtx(ctx, part) ==
    [k \in DOMAIN ctx |-> ctx[k]]

\* The merge, were it written { ...part, ...ctx }: the earlier value wins.
mergeFirstWins(ctx, part) ==
    [k \in (DOMAIN ctx) \cup (DOMAIN part) |->
        IF k \in DOMAIN ctx THEN ctx[k] ELSE part[k]]

\* { ...ctx, ...part }
merge(ctx, part) ==
    [k \in (DOMAIN ctx) \cup (DOMAIN part) |->
        IF k \in DOMAIN part THEN part[k] ELSE ctx[k]]

defaultContext == ("u" :> 7) @@ ("b" :> 0)

\* The runtimeContext option of createAPI: absent, a static object, or a function
\* (value is what the object holds when it is given, or what the function returns).
NoOverride == [kind |-> "none", value |-> EmptyCtx]
StaticOverride == [kind |-> "static", value |-> ("u" :> 8)]
FunctionOverride == [kind |-> "function", value |-> ("v" :> 9)]
Overrides == {NoOverride, StaticOverride, FunctionOverride}

----------------------------------------------------------------------------
(* Extensions *)

ExtKinds == {"frag", "counter", "initOnly"}

extName(kind) ==
    IF kind = "frag" THEN "frag" ELSE "cnt"

hasInit(kind) == kind \in {"counter", "initOnly"}

hasRequest(kind) == kind \in {"frag", "counter"}

\* The value held by the object init returns.
initValue(kind) == IF kind = "counter" THEN 0 ELSE 5

NoAddr == <<0, 0>>

\* What request does to the object it is given as state.
requestWrite(kind, stateValue) ==
    IF kind = "counter" THEN stateValue + 1 ELSE stateValue

\* The fragment request returns, from the state it wrote and the context so far.
requestPart(kind, stateValue, ctx) ==
    CASE kind = "frag" ->
            IF "a" \in DOMAIN ctx
                THEN ("a" :> (ctx["a"] + 1)) @@ ("b" :> 3)
                ELSE ("a" :> 1)
      [] kind = "counter" -> ("n" :> stateValue)
      [] OTHER -> EmptyCtx

\* A function an extension or a builder puts on the builder object t; from is
\* the index of the extension in the list, 0 for the builder itself.
BuilderFn(from, name) == [from |-> from, name |-> name]

hasFunctions(kind) == kind \in {"frag", "counter"}

\* What functions() of the extension at index i returns.
extFunctions(kind, i) ==
    CASE kind = "frag" -> ("log" :> BuilderFn(i, "log"))
      [] kind = "counter" -> ("log" :> BuilderFn(i, "log")) @@ ("inc" :> BuilderFn(i, "inc"))
      [] OTHER -> EmptyCtx

----------------------------------------------------------------------------
(* Declarations of the root given to createAPI *)

Endpoints == {"getUser", "createUser"}

\* ... and those of the counter test: getCounter reads a module-scope counter,
\* incrementCounter increments it.
CounterEndpoints == {"getCounter", "incrementCounter"}

kindOf(ep) == IF ep \in {"createUser", "incrementCounter"} THEN "mutation" ELSE "query"

\* options.handler(ctx, data): the promise the handler returns, once settled.
\* getUser answers failure(Unauthorized) to a context without a user u;
\* createUser throws.
handler(ep, ctx, data) ==
    CASE ep = "getUser" ->
            IF "u" \in DOMAIN ctx THEN success(data) ELSE failure("Unauthorized")
      [] ep = "createUser" -> rejected("HandlerError")

----------------------------------------------------------------------------
(* Declaration trees and their activation *)

\* t.query(options) / t.mutation(options) of the rpc extension: the function
\* (contextProvider) => async (input) => ..., for the endpoint named ep.
Declaration(ep) == [type |-> "declaration", ep |-> ep]

\* The async (input) => ... a declaration returns when it is given the
\* getContext of activated API a.
Endpoint(a, ep) == [type |-> "endpoint", api |-> a, ep |-> ep]

\* A number, and a string.
Primitive(v) == [type |-> "primitive", value |-> v]

Text(v) == [type |-> "text", value |-> v]

\* The handler function of a declaration, as a value.
Handler(ep) == [type |-> "handler", ep |-> ep]

\* A function that carries the properties _type, args and handler.
TaggedFunction(ep) == [type |-> "taggedFunction", ep |-> ep]

\* The async (input) => ... that activateAPI returns for a tagged function.
NativeEndpoint(ep) == [type |-> "nativeEndpoint", ep |-> ep]

Null == [type |-> "null"]

\* The promise an endpoint returns for a call.
PromiseOf(node) == [type |-> "promise", of |-> node]

\* A property that is not there.
Missing == [type |-> "undefined"]

\* An object: its own keys in insertion order, the enumerable keys it inherits
\* through its prototype chain, and the value each key reads.
Mapping(own, inherited, at) ==
    [type |-> "mapping", own |-> own, inherited |-> inherited, at |-> at]

EmptyMapping == Mapping(<<>>, <<>>, [k \in {} |-> Missing])

\* typeof node
typeOf(node) ==
    CASE node.type \in {"declaration", "endpoint", "handler",
                        "taggedFunction", "nativeEndpoint"} -> "function"
      [] node.type \in {"mapping", "promise", "null"} -> "object"
      [] node.type = "undefined" -> "undefined"
      [] node.type = "text" -> "string"
      [] OTHER -> "number"

Range(seq) == {seq[i] : i \in DOMAIN seq}

\* The keys  for (const key in node)  visits and hasOwnProperty lets through.
forInOwn(node) ==
    IF node.type = "mapping" THEN node.own ELSE <<>>

\* The keys  for (const k in node)  visits, in order: the own enumerable keys,
\* then the inherited ones that no own key shadows.
forIn(node) ==
    IF node.type = "mapping"
        THEN node.own \o SelectSeq(node.inherited, LAMBDA k : k \notin Range(node.own))
        ELSE <<>>

\* res[k] = v
setKey(res, k, v) ==
    [res EXCEPT
        !.own = IF k \in Range(@) THEN @ ELSE Append(@, k),
        !.at = [x \in (DOMAIN @) \cup {k} |-> IF x = k THEN v ELSE @[x]]]

\* node(getContext), were a declaration to keep the endpoint it made for the
\* first getContext it was given and to return it ever after.
callNodeFirstActivation(node, a) ==
    IF node.type = "declaration"
        THEN [res |-> Endpoint(1, node.ep), ran |-> <<>>]
        ELSE [res |-> PromiseOf(node), ran |-> <<node>>]

\* node(getContext) for a function node, in createAPI number a: a declaration
\* returns its endpoint; an endpoint activated before takes getContext for its
\* input, runs, and returns a promise.
callNode(node, a) ==
    IF node.type = "declaration"
        THEN [res |-> Endpoint(a, node.ep), ran |-> <<>>]
        ELSE [res |-> PromiseOf(node), ran |-> <<node>>]

\* activate(node) of createAPI number a: the node it returns and the endpoints
\* it has run on the way, in order.
RECURSIVE activate(_, _)
RECURSIVE activateEntries(_, _, _, _, _)
activateEntries(node, keys, i, a, acc) ==
    IF i > Len(keys) THEN acc
    ELSE LET sub == activate(node.at[keys[i]], a)
         IN  activateEntries(node, keys, i + 1, a,
                [res |-> setKey(acc.res, keys[i], sub.res),
                 ran |-> acc.ran \o sub.ran])

activate(node, a) ==
    IF typeOf(node) = "function" THEN callNode(node, a)
    ELSE IF typeOf(node) = "object" /\ node.type # "null"
        THEN activateEntries(node, forIn(node), 1, a, [res |-> EmptyMapping, ran |-> <<>>])
    ELSE [res |-> node, ran |-> <<>>]

\* The schema given as args: an object of the validation library.
ZodSchema ==
    Mapping(<<"_def">>, <<>>, [k \in {"_def"} |-> Text("ZodObject")])

\* createNativeAPI().t.query(definition) / t.mutation(definition): the object
\* { _type, args, handler }.
NativeDeclaration(ep) ==
    Mapping(<<"_type", "args", "handler">>, <<>>,
            ("_type" :> Text(kindOf(ep))) @@ ("args" :> ZodSchema)
                @@ ("handler" :> Handler(ep)))

\* activateAPI(node, context, extensions) of native.ts: the node it returns.
RECURSIVE activateAPI(_)
RECURSIVE activateAPIEntries(_, _, _, _)
activateAPIEntries(node, keys, i, result) ==
    IF i > Len(keys) THEN result
    ELSE activateAPIEntries(node, keys, i + 1,
            setKey(result, keys[i], activateAPI(node.at[keys[i]])))

activateAPI(node) ==
    IF typeOf(node) = "function"
        THEN IF node.type = "taggedFunction" THEN NativeEndpoint(node.ep) ELSE node
    ELSE IF typeOf(node) = "object" /\ node.type # "null"
        THEN activateAPIEntries(node, forInOwn(node), 1, EmptyMapping)
    ELSE node

\* tree.k1.k2...: the value read at a path of keys
RECURSIVE lookup(_, _)
lookup(tree, path) ==
    IF path = <<>> THEN tree
    ELSE IF tree.type = "mapping" /\ Head(path) \in DOMAIN tree.at
        THEN lookup(tree.at[Head(path)], Tail(path))
    ELSE Missing

----------------------------------------------------------------------------
(* createAPI: extension state *)

\* states.get(name), were the map read without regard to the name: the first
\* state stored is given to every extension.
statesGetFirst(states, name) ==
    IF DOMAIN states = {} THEN NoAddr
    ELSE states[CHOOSE n \in DOMAIN states : TRUE]

\* states.get(name)
statesGet(states, name) ==
    IF name \in DOMAIN states THEN states[name] ELSE NoAddr

\* states.set(name, addr)
statesSet(states, name, addr) ==
    [n \in (DOMAIN states) \cup {name} |-> IF n = name THEN addr ELSE states[n]]

heapGet(h, addr) ==
    IF addr \in DOMAIN h THEN h[addr] ELSE 0

heapSet(h, addr, v) ==
    [x \in (DOMAIN h) \cup {addr} |-> IF x = addr THEN v ELSE h[x]]

\* The forEach, were init skipped for a name that already has a state.
RECURSIVE forEachInitOncePerName(_, _, _, _)
forEachInitOncePerName(i, a, raiseAt, acc) ==
    IF i > Len(extensions) \/ acc.threw THEN acc
    ELSE IF ~hasInit(extensions[i]) \/ extName(extensions[i]) \in DOMAIN acc.states
        THEN forEachInitOncePerName(i + 1, a, raiseAt, acc)
    ELSE IF i = raiseAt
        THEN [acc EXCEPT !.inits = Append(@, i), !.threw = TRUE]
        ELSE forEachInitOncePerName(i + 1, a, raiseAt,
                [acc EXCEPT !.inits = Append(@, i),
                            !.heap = heapSet(@, <<a, i>>, initValue(extensions[i])),
                            !.states = statesSet(@, extName(extensions[i]), <<a, i>>)])

\* extensions.forEach((e) => e.init && states.set(e.name, e.init()))
\* from extension i on; acc = [states, heap, inits, threw]; the init of
\* extension raiseAt (0: none) raises.
RECURSIVE forEachInit(_, _, _, _)
forEachInit(i, a, raiseAt, acc) ==
    IF i > Len(extensions) \/ acc.threw THEN acc
    ELSE IF ~hasInit(extensions[i]) THEN forEachInit(i + 1, a, raiseAt, acc)
    ELSE IF i = raiseAt
        THEN [acc EXCEPT !.inits = Append(@, i), !.threw = TRUE]
        ELSE forEachInit(i + 1, a, raiseAt,
                [acc EXCEPT !.inits = Append(@, i),
                            !.heap = heapSet(@, <<a, i>>, initValue(extensions[i])),
                            !.states = statesSet(@, extName(extensions[i]), <<a, i>>)])

\* let counter = 0 at module scope, which the handlers of the counter
\* endpoints close over: where it is kept.
ModuleCounter == <<0, 2>>

counterOf(h) == heapGet(h, ModuleCounter)

\* What the handler of ep does to the module-scope counter: ++counter
handlerWrite(ep, h) ==
    IF ep = "incrementCounter" THEN heapSet(h, ModuleCounter, counterOf(h) + 1) ELSE h

----------------------------------------------------------------------------
(* Endpoint calls *)

\* What a call did, in order: the step, the extension it concerns, the context
\* (or fragment) it carries and, for a request, the state argument it was given.
Event(type, ext, ctx) == [type |-> type, ext |-> ext, ctx |-> ctx, state |-> NoAddr]

\* ext.request(state, ctx) was invoked for extension i.
Requested(i, state, ctx) == [Event("request", i, ctx) EXCEPT !.state = state]

\* The two values an endpoint passes to its handler.
ValidatedArgs(data) == [is |-> "args", data |-> data, ctx |-> EmptyCtx]

ResolvedContext(ctx) == [is |-> "context", data |-> Undefined, ctx |-> ctx]

\* The first extension at or after index from that defines request; 0 if none.
nextRequest(from) ==
    IF \E i \in from..Len(extensions) : hasRequest(extensions[i])
        THEN CHOOSE i \in from..Len(extensions) :
                /\ hasRequest(extensions[i])
                /\ \A j \in from..(i - 1) : ~hasRequest(extensions[j])
        ELSE 0

\* The for loop of getContext from extension index from, run to its next await
\* (a request was invoked) or to its return.  st = [call, heap].
\* The request of extension i, were its promise not awaited: the loop does not
\* wait for the fragment and getContext returns.
awaitRequestNotAwaited(st, i) ==
    LET kind == extensions[i]
        addr == statesGet(apis[st.call.api].states, extName(kind))
        v == requestWrite(kind, heapGet(st.heap, addr))
    IN  [st EXCEPT
            !.call.pc = "awaitContext",
            !.call.idx = 0,
            !.call.trace = Append(@, Requested(i, addr, st.call.ctx)),
            !.inv.request[i] = @ + 1,
            !.heap = IF addr = NoAddr THEN @ ELSE heapSet(@, addr, v)]

\* The request of extension i, were the states map shared by every activated
\* API (one map for the whole composition, holding the last createAPI's states).
awaitRequestSharedStates(st, i) ==
    LET kind == extensions[i]
        addr == statesGet(apis[Len(apis)].states, extName(kind))
        v == requestWrite(kind, heapGet(st.heap, addr))
    IN  [st EXCEPT
            !.call.pc = "awaitRequest",
            !.call.idx = i,
            !.call.part = requestPart(kind, v, st.call.ctx),
            !.call.trace = Append(@, Requested(i, addr, st.call.ctx)),
            !.inv.request[i] = @ + 1,
            !.heap = IF addr = NoAddr THEN @ ELSE heapSet(@, addr, v)]

\* await ext.request(states.get(ext.name), ctx) for extension i: request runs
\* on its state and the context so far, and the call waits for its promise.
awaitRequest(st, i) ==
    LET kind == extensions[i]
        addr == statesGet(apis[st.call.api].states, extName(kind))
        v == requestWrite(kind, heapGet(st.heap, addr))
    IN  [st EXCEPT
            !.call.pc = "awaitRequest",
            !.call.idx = i,
            !.call.part = requestPart(kind, v, st.call.ctx),
            !.call.trace = Append(@, Requested(i, addr, st.call.ctx)),
            !.inv.request[i] = @ + 1,
            !.heap = IF addr = NoAddr THEN @ ELSE heapSet(@, addr, v)]

runLoop(st, from) ==
    LET i == nextRequest(from)
    IN  IF i = 0
        THEN [st EXCEPT !.call.pc = "awaitContext", !.call.idx = 0]
        ELSE awaitRequest(st, i)

\* The merge of a fragment, were the fragments of every call also assigned to
\* one object that createAPI holds for all calls and that is spread into ctx.
SharedCtx == <<0, 3>>

requestResolvedShared(st) ==
    LET shared == IF SharedCtx \in DOMAIN st.heap THEN st.heap[SharedCtx] ELSE EmptyCtx
        ctx == merge(merge(st.call.ctx, shared), st.call.part)
    IN  runLoop([st EXCEPT
                    !.call.ctx = ctx,
                    !.heap = heapSet(@, SharedCtx, merge(shared, st.call.part)),
                    !.call.trace = Append(@, Event("resolved", st.call.idx, st.call.part))],
                st.call.idx + 1)

\* const part = <the fragment>; ctx = { ...ctx, ...part }; then the loop goes on.
requestResolved(st) ==
    runLoop([st EXCEPT
                !.call.ctx = merge(@, st.call.part),
                !.call.trace = Append(@, Event("resolved", st.call.idx, st.call.part))],
            st.call.idx + 1)

\* The rejection of a request, were it caught and the loop continued.
requestRejectedSwallowed(st) ==
    runLoop([st EXCEPT
                !.call.trace = Append(@, Event("raised", st.call.idx, EmptyCtx))],
            st.call.idx + 1)

\* The awaited request rejected: nothing catches it, getContext rejects, and so
\* do onSuccess and the endpoint's promise.
requestRejected(st) ==
    [st EXCEPT
        !.call.pc = "done",
        !.call.trace = Append(@, Event("raised", st.call.idx, EmptyCtx)),
        !.call.result = rejected("RequestError"),
        !.inv.raised = TRUE]

\* The base, were the override merged over the default context.
withBaseOverDefault(st, base) ==
    runLoop([st EXCEPT !.call.ctx = merge(defaultContext, base),
                       !.call.trace = Append(@, Event("base", 0, merge(defaultContext, base)))],
            1)

\* The base context once it is known: let ctx = { ...base }, then the loop.
withBase(st, base) ==
    runLoop([st EXCEPT !.call.ctx = spread(base),
                       !.call.trace = Append(@, Event("base", 0, base))], 1)

\* getContext, were the context of the first call kept and given to the later
\* calls: neither the runtimeContext function nor a request runs again.
getContextCached(st) ==
    LET o == apis[st.call.api].override
    IN  IF st.inv.valid > 1
        THEN [st EXCEPT !.call.pc = "awaitContext", !.call.idx = 0]
        ELSE IF o.kind = "function"
        THEN [st EXCEPT !.call.pc = "awaitBase",
                        !.call.trace = Append(@, Event("runtimeContext", 0, EmptyCtx)),
                        !.inv.runtimeContext = @ + 1]
        ELSE withBase(st, IF o.kind = "static" THEN st.given.static ELSE st.given.default)

\* getContext() up to its first await.
getContext(st) ==
    LET o == apis[st.call.api].override
    IN  IF o.kind = "function"
        THEN [st EXCEPT !.call.pc = "awaitBase",
                        !.call.trace = Append(@, Event("runtimeContext", 0, EmptyCtx)),
                        !.inv.runtimeContext = @ + 1]
        ELSE withBase(st, IF o.kind = "static" THEN st.given.static ELSE st.given.default)

\* onSuccess, were the handler given the raw input of the call.
onSuccessRawInput(st, data) ==
    getContext([st EXCEPT !.call.data = st.call.input, !.inv.valid = @ + 1])

\* onSuccess: async (data) => { const ctx = await contextProvider(); ... }
onSuccess(st, data) ==
    getContext([st EXCEPT !.call.data = data, !.inv.valid = @ + 1])

\* onFailure, were it to throw the validation error.
onFailureThrows(st, error) ==
    [st EXCEPT !.call.pc = "done", !.call.result = rejected(error)]

\* onFailure: (error) => Promise.resolve(failure(error))
onFailure(st, error) ==
    [st EXCEPT !.call.pc = "done", !.call.result = failure(error)]

\* A call record as the endpoint function starts running.
newCall(a, ep, input) ==
    [api |-> a, ep |-> ep, input |-> input, pc |-> "start",
     idx |-> 0, ctx |-> EmptyCtx, part |-> EmptyCtx,
     data |-> Undefined, args |-> <<>>, ret |-> Pending, result |-> Pending,
     trace |-> <<Event("validate", 0, EmptyCtx)>>]

\* async (input) => { const parsed = parseArgs(options.args, input); return parsed.match(...) }
endpoint(a, ep, input) ==
    LET parsed == parseArgs(input)
        st == [call |-> newCall(a, ep, input), heap |-> heap, inv |-> invoked,
               given |-> given]
    IN  match(parsed, onSuccess(st, parsed.value), onFailure(st, parsed.error))

NoCall ==
    [newCall(0, "none", "none") EXCEPT !.pc = "none", !.trace = <<>>]

NoCreate == [made |-> FALSE, inits |-> <<>>, returned |-> FALSE]

StateOf(r) ==
    [call |-> r, heap |-> heap, inv |-> invoked, given |-> given]

\* The variables after a run of code that leaves the world in st; a call that
\* has completed leaves the calls in flight.
Commit(inFlight, st) ==
    /\ calls' = IF st.call.pc = "done" THEN inFlight
                ELSE inFlight (+) SetToBag({st.call})
    /\ done' = IF st.call.pc = "done" THEN st.call ELSE NoCall
    /\ heap' = st.heap
    /\ invoked' = st.inv
    /\ given' = st.given
    /\ lastCreate' = NoCreate
    /\ UNCHANGED <<extensions, apis, built>>

\* The step of the call in flight r that leaves the world in st.
Step(r, st) ==
    /\ Commit(calls (-) SetToBag({r}), st)
    /\ UNCHANGED started

----------------------------------------------------------------------------
(* Actions *)

\* The extension lists considered: every run of at most MaxExts consecutive
\* extensions of this ring.
Ring == <<"counter", "initOnly", "frag", "frag">>

ExtLists ==
    {SubSeq(Ring \o Ring, i, i + n - 1) : i \in 1..Len(Ring), n \in 0..MaxExts}

Init ==
    /\ extensions \in ExtLists
    /\ apis = <<>>
    /\ heap = [x \in {} |-> 0]
    /\ calls = EmptyBag
    /\ started = 0
    /\ done = NoCall
    /\ lastCreate = NoCreate
    /\ invoked = [valid |-> 0, runtimeContext |-> 0, raised |-> FALSE,
                  request |-> [i \in DOMAIN extensions |-> 0], observed |-> <<>>]
    /\ built = [op |-> "none"]
    /\ given = [default |-> defaultContext, static |-> StaticOverride.value]

\* The roots given to createAPI.
\* { getUser, createUser }
RootFlat ==
    Mapping(<<"getUser", "createUser">>, <<>>,
            [k \in {"getUser", "createUser"} |-> Declaration(k)])

\* { getCounter, incrementCounter }
RootCounter ==
    Mapping(<<"getCounter", "incrementCounter">>, <<>>,
            [k \in CounterEndpoints |-> Declaration(k)])

\* { b: getUser }
RootDirect ==
    Mapping(<<"b">>, <<>>, [k \in {"b"} |-> Declaration("getUser")])

\* t.router({ a: { b: getUser } })
RootNested ==
    Mapping(<<"a">>, <<>>, [k \in {"a"} |-> RootDirect])

\* Object.assign(Object.create({ secret: createUser }), { getUser })
RootInherits ==
    Mapping(<<"getUser">>, <<"secret">>,
            ("getUser" :> Declaration("getUser")) @@ ("secret" :> Declaration("createUser")))

\* { old: <an endpoint of an API activated before>, version: 1, nothing: null }
RootReuse(e) ==
    Mapping(<<"old", "version", "nothing">>, <<>>,
            ("old" :> e) @@ ("version" :> Primitive(1)) @@ ("nothing" :> Null))

\* The endpoints at the top level of an activated tree.
EndpointsOf(tree) ==
    {tree.at[k] : k \in {x \in DOMAIN tree.at : tree.at[x].type = "endpoint"}}

Roots ==
    {RootFlat, RootDirect, RootNested, RootInherits}
        \cup (IF apis = <<>> THEN {} ELSE {RootReuse(e) : e \in EndpointsOf(apis[1].tree)})

Paths ==
    {<<"getUser">>, <<"createUser">>, <<"b">>, <<"a", "b">>, <<"secret">>, <<"old">>}

\* createAPI({ root, runtimeContext }); the init of extension raiseAt raises.
\* An endpoint that activate runs takes the function getContext for its input,
\* which the schema refuses: its call is over within createAPI.
createAPI(root, override, raiseAt) ==
    /\ Len(apis) < MaxAPIs
    /\ raiseAt = 0 \/ (raiseAt \in 1..Len(extensions) /\ hasInit(extensions[raiseAt]))
    /\ LET a == Len(apis) + 1
           r == forEachInit(1, a, raiseAt,
                    [states |-> [n \in {} |-> NoAddr], heap |-> heap,
                     inits |-> <<>>, threw |-> FALSE])
           act == activate(root, a)
           ran == IF r.threw THEN <<>>
                  ELSE SelectSeq(act.ran, LAMBDA n : n.type = "endpoint")
       IN  /\ lastCreate' = [made |-> TRUE, inits |-> r.inits, returned |-> ~r.threw]
           /\ apis' = IF r.threw THEN apis
                      ELSE Append(apis, [states |-> r.states, override |-> override,
                                         inits |-> r.inits, builder |-> "defineContext",
                                         root |-> root, tree |-> act.res])
           /\ heap' = IF r.threw THEN heap ELSE r.heap
           /\ done' = IF ran = <<>> THEN NoCall
                      ELSE endpoint(ran[Len(ran)].api, ran[Len(ran)].ep, GetContext).call
    /\ UNCHANGED <<extensions, calls, started, invoked, built, given>>

\* The roots given to the createAPI of createNativeAPI().
\* { getUser, createUser }
NativeRootFlat ==
    Mapping(<<"getUser", "createUser">>, <<>>,
            [k \in {"getUser", "createUser"} |-> NativeDeclaration(k)])

\* t.router({ a: { b: getUser } })
NativeRootNested ==
    Mapping(<<"a">>, <<>>,
            [k \in {"a"} |->
                Mapping(<<"b">>, <<>>, [j \in {"b"} |-> NativeDeclaration("getUser")])])

NativeRoots == {NativeRootFlat, NativeRootNested}

\* createNativeAPI().createAPI(root, runtimeContext)
createNativeAPI(root, runtimeContext) ==
    /\ Len(apis) < MaxAPIs
    /\ apis' = Append(apis, [states |-> [n \in {} |-> NoAddr],
                             override |-> [kind |-> "static", value |-> runtimeContext],
                             inits |-> <<>>, builder |-> "createNativeAPI",
                             root |-> root, tree |-> activateAPI(root)])
    /\ lastCreate' = [made |-> TRUE, inits |-> <<>>, returned |-> TRUE]
    /\ done' = NoCall
    /\ UNCHANGED <<extensions, heap, calls, started, invoked, built, given>>

\* A root of functions that carry _type, args and handler themselves:
\* { getUser: Object.assign(async () => {}, getUser), createUser: ... }
NativeRootTagged ==
    Mapping(<<"getUser", "createUser">>, <<>>,
            [k \in {"getUser", "createUser"} |-> TaggedFunction(k)])

\* defineContextCompat(defaultContext).withExtensions(extensions)
\*     .createAPI({ root, runtimeContext })
createCompatAPI(root, override) ==
    /\ Len(apis) < MaxAPIs
    /\ override.kind \in {"none", "static"}
    /\ apis' = Append(apis, [states |-> [n \in {} |-> NoAddr],
                             override |-> override,
                             inits |-> <<>>, builder |-> "defineContextCompat",
                             root |-> root, tree |-> activateAPI(root)])
    /\ lastCreate' = [made |-> TRUE, inits |-> <<>>, returned |-> TRUE]
    /\ done' = NoCall
    /\ UNCHANGED <<extensions, heap, calls, started, invoked, built, given>>

----------------------------------------------------------------------------
(* The builder object t *)

\* The reduce, were it written ({ ...functions, ...acc }): the first name wins.
RECURSIVE tReduceFirstWins(_, _)
tReduceFirstWins(i, acc) ==
    IF i > Len(extensions) THEN acc
    ELSE tReduceFirstWins(i + 1,
            merge(IF hasFunctions(extensions[i])
                     THEN extFunctions(extensions[i], i) ELSE EmptyCtx, acc))

\* extensions.reduce((acc, ext) => ({ ...acc, ...(ext.functions ? ext.functions() : {}) }), acc)
\* from extension i on.
RECURSIVE tReduce(_, _)
tReduce(i, acc) ==
    IF i > Len(extensions) THEN acc
    ELSE tReduce(i + 1,
            merge(acc, IF hasFunctions(extensions[i])
                          THEN extFunctions(extensions[i], i) ELSE EmptyCtx))

\* t of defineContext(...).withExtensions(extensions)
t == tReduce(1, ("router" :> BuilderFn(0, "router")))

\* t of createNativeAPI()
nativeT ==
    [n \in {"query", "mutation", "router"} |-> BuilderFn(0, n)]

\* t of defineContextCompat(...).withExtensions(extensions):
\* { ...t, ...nativeExtensions.reduce((acc, ext) => ({ ...acc, ...(ext.methods || {}) }), {}) }
compatT == merge(nativeT, tReduce(1, EmptyCtx))

\* The objects given to router, and a reference to one of them.
Objects == <<RootFlat, RootNested, RootInherits, NativeRootNested>>

Reference(i) == [ref |-> i, object |-> Objects[i]]

\* router, were it to return a copy of its argument.
routerCopies(r) == [r EXCEPT !.ref = @ + Len(Objects)]

\* router: (r) => r
router(r) == r

\* router: (routes) => { return routes; }
nativeRouter(routes) == routes

UnchangedEngine ==
    UNCHANGED <<extensions, apis, heap, calls, started, done, lastCreate, invoked,
                given>>

\* t.router(r) on the builder of defineContext
useRouter(r) ==
    /\ built' = [op |-> "router", by |-> "defineContext", arg |-> r, res |-> router(r)]
    /\ UnchangedEngine

\* t.router(routes) on the builder of createNativeAPI
useNativeRouter(routes) ==
    /\ built' = [op |-> "router", by |-> "createNativeAPI", arg |-> routes,
                 res |-> nativeRouter(routes)]
    /\ UnchangedEngine

\* const { t } = defineContext(...).withExtensions(extensions)
useT ==
    /\ built' = [op |-> "t", by |-> "defineContext", res |-> t]
    /\ UnchangedEngine

\* const { t } = defineContextCompat(...).withExtensions(extensions)
useCompatT ==
    /\ built' = [op |-> "t", by |-> "defineContextCompat", res |-> compatT]
    /\ UnchangedEngine

\* const r = success(v); r.isSuccess(); r.isFailure(); r.match(handlers)
useSuccess(v) ==
    /\ built' = [op |-> "success", arg |-> v, res |-> success(v),
                 isSuccess |-> isSuccess(success(v)),
                 isFailure |-> isFailure(success(v)),
                 invoked |-> matchInvokes(success(v))]
    /\ UnchangedEngine

\* const r = failure(e); r.isSuccess(); r.isFailure(); r.match(handlers)
useFailure(e) ==
    /\ built' = [op |-> "failure", arg |-> e, res |-> failure(e),
                 isSuccess |-> isSuccess(failure(e)),
                 isFailure |-> isFailure(failure(e)),
                 invoked |-> matchInvokes(failure(e))]
    /\ UnchangedEngine

\* const m = some(v); m.isSome(); m.isNone(); m.match(handlers)
useSome(v) ==
    /\ built' = [op |-> "some", arg |-> v, res |-> some(v),
                 isSome |-> isSome(some(v)), isNone |-> isNone(some(v)),
                 invoked |-> maybeMatchInvokes(some(v))]
    /\ UnchangedEngine

\* const m = none(); m.isSome(); m.isNone(); m.match(handlers)
useNone ==
    /\ built' = [op |-> "none()", arg |-> Undefined, res |-> none,
                 isSome |-> isSome(none), isNone |-> isNone(none),
                 invoked |-> maybeMatchInvokes(none)]
    /\ UnchangedEngine

\* The values given to the constructors; undefined is one of them.
Payloads == {"id1", "Unauthorized", Undefined}

\* The functions given to tryCatch, tryCatchAsync and from: fn returns a
\* value, throws, or returns a promise that resolves or that rejects.
Fns ==
    {[does |-> d, with |-> x] :
        d \in {"returns", "throws", "resolves", "rejects"}, x \in Payloads}

\* The promise fn returned, as a value.
promiseOf(f) == [type |-> "promise", does |-> f.does, with |-> f.with]

\* What fn() evaluates to when it does not throw.
returnOf(f) == IF f.does = "returns" THEN f.with ELSE promiseOf(f)

\* await Promise.resolve(fn()) when fn() did not throw: the value, the value
\* the promise resolved to, or the error it rejected with, raised.
awaited(f) ==
    IF f.does = "rejects" THEN rejected(f.with) ELSE success(f.with)

\* try { return success(fn()); } catch (error) { return failure(error); }
tryCatch(f) ==
    IF f.does = "throws" THEN failure(f.with) ELSE success(returnOf(f))

\* tryCatchAsync, were it written without try and catch: what fn raises, and
\* the rejection of its promise, reject the promise returned.
tryCatchAsyncNoCatch(f) ==
    IF f.does = "throws" THEN rejected(f.with)
    ELSE awaited(f)

\* try { const value = await Promise.resolve(fn()); return success(value); }
\* catch (error) { return failure(error); }   What the promise settles to.
tryCatchAsync(f) ==
    IF f.does = "throws" THEN failure(f.with)
    ELSE IF awaited(f).tag = "Rejected" THEN failure(awaited(f).error)
    ELSE success(awaited(f).value)

\* export const from = (fn) => tryCatchAsync(fn)
from(fn) == tryCatchAsync(fn)

\* tryCatch(fn)
useTryCatch(f) ==
    /\ built' = [op |-> "tryCatch", arg |-> f, res |-> tryCatch(f)]
    /\ UnchangedEngine

\* await tryCatchAsync(fn), the rejection of the promise observed as well
useTryCatchAsync(f) ==
    /\ built' = [op |-> "tryCatchAsync", arg |-> f, res |-> tryCatchAsync(f)]
    /\ UnchangedEngine

\* await from(fn)
useFrom(f) ==
    /\ built' = [op |-> "from", arg |-> f, res |-> from(f)]
    /\ UnchangedEngine

\* The builders and the constructors, used in any order.
NextBuild ==
    \/ \E i \in DOMAIN Objects : useRouter(Reference(i))
    \/ \E i \in DOMAIN Objects : useNativeRouter(Reference(i))
    \/ useT
    \/ useCompatT
    \/ \E v \in Payloads : useSuccess(v)
    \/ \E e \in Payloads : useFailure(e)
    \/ \E v \in Payloads : useSome(v)
    \/ useNone
    \/ \E f \in Fns : useTryCatch(f)
    \/ \E f \in Fns : useTryCatchAsync(f)
    \/ \E f \in Fns : useFrom(f)

SpecBuild == Init /\ [][NextBuild]_vars

----------------------------------------------------------------------------
(* Endpoint calls of the native builder and of defineContextCompat *)

\* The property count of an object that has none, after ++ : not a number.
NaN == -1

\* The value undefined where a context is expected, and the address recorded
\* for a state argument that is the context object of the call itself.
UndefinedCtx == ("undefined" :> 0)
ContextAsState == <<0, 1>>

\* handler: async (args, ctx) => ... as written for the native builder: the
\* same endpoint, its parameters in the native order.
nativeHandler(ep, args, ctx) == handler(ep, ctx, args)

\* The extensions given to createNativeAPI by the builder of API a:
\* defineContextCompat maps the list of withExtensions, createNativeAPI() is
\* used without extensions.  The first index at or after from whose native
\* extension defines context (ext.request ? async (state, ctx) => ... :
\* undefined); 0 if none.
nextContext(a, first) ==
    IF apis[a].builder = "defineContextCompat" THEN nextRequest(first) ELSE 0

\* ext.request(object, undefined), which the wrapper of defineContextCompat
\* runs when it is called with one argument: what request leaves in the object
\* it takes for its state.
compatWrite(kind, object) ==
    IF kind = "counter"
        THEN ("count" :> (IF "count" \in DOMAIN object THEN object["count"] + 1 ELSE NaN))
                @@ object
        ELSE object

\* ... whether it raises (frag reads a key of its second argument) ...
compatRaises(kind) == kind = "frag"

\* ... and the fragment it returns.
compatPart(kind, written) ==
    IF kind = "counter" THEN ("n" :> written["count"]) ELSE EmptyCtx

\* return node.handler(parsed.data, fullContext)
callNativeHandler(st) ==
    [st EXCEPT
        !.call.pc = "awaitHandler",
        !.call.trace = Append(@, Event("handler", 0, st.call.ctx)),
        !.call.args = <<ValidatedArgs(st.call.data), ResolvedContext(st.call.ctx)>>,
        !.call.ret = nativeHandler(st.call.ep, st.call.data, st.call.ctx)]

\* const partial = await ext.context(fullContext) for extension i
awaitExtContext(st, i) ==
    LET kind == extensions[i]
        written == compatWrite(kind, st.call.ctx)
    IN  [st EXCEPT
            !.call.pc = "awaitExtContext",
            !.call.idx = i,
            !.call.ctx = written,
            !.call.part = compatPart(kind, written),
            !.call.trace = Append(@, Requested(i, ContextAsState, UndefinedCtx)),
            !.inv.request[i] = @ + 1]

\* The for loop of the native endpoint from extension index first, run to its
\* next await or to the call of the handler.
nativeLoop(st, first) ==
    LET i == nextContext(st.call.api, first)
    IN  IF i = 0 THEN callNativeHandler(st) ELSE awaitExtContext(st, i)

\* fullContext = { ...fullContext, ...partial }; then the loop goes on.
extContextResolved(st) ==
    nativeLoop([st EXCEPT
                    !.call.ctx = merge(@, st.call.part),
                    !.call.trace = Append(@, Event("resolved", st.call.idx, st.call.part))],
               st.call.idx + 1)

\* The context argument of activateAPI for API a: the runtimeContext given to
\* createAPI, which defineContextCompat replaces by {} when it is absent.
nativeContext(st) ==
    IF apis[st.call.api].override.kind = "static" THEN st.given.static ELSE EmptyCtx

\* The context of the call, were the loop to start from the context object
\* itself: what the first extension writes is written to the object given.
fullContextNoCopy(st) ==
    LET r == nativeLoop([st EXCEPT
                            !.call.ctx = nativeContext(st),
                            !.call.trace = Append(@, Event("base", 0, nativeContext(st)))], 1)
    IN  IF apis[st.call.api].override.kind = "static" /\ r.call.pc = "awaitExtContext"
        THEN [r EXCEPT !.given.static = r.call.ctx]
        ELSE r

\* let fullContext = { ...context }; then the loop.
fullContext(st) ==
    nativeLoop([st EXCEPT
                    !.call.ctx = spread(nativeContext(st)),
                    !.call.trace = Append(@, Event("base", 0, nativeContext(st)))], 1)

\* The async (input) => ... of activateAPI for the tagged function ep, called
\* through API a.
nativeEndpoint(a, ep, input) ==
    LET parsed == parseArgs(input)
        st == [call |-> newCall(a, ep, input), heap |-> heap, inv |-> invoked,
               given |-> given]
    IN  IF parsed.tag = "Failure"
        THEN [st EXCEPT !.call.pc = "done", !.call.result = failure("ValidationError")]
        ELSE fullContext([st EXCEPT !.call.data = parsed.value, !.inv.valid = @ + 1])

----------------------------------------------------------------------------
\* The attempt to call a value that is not a function: a TypeError is raised
\* and no endpoint runs.
notAFunction(a) ==
    [call |-> [NoCall EXCEPT !.api = a, !.pc = "done", !.result = rejected("TypeError")],
     heap |-> heap, inv |-> invoked, given |-> given]

\* api.<path>(input): the call of what activated API a holds at the path.
invoke(a, path, input) ==
    /\ a \in 1..Len(apis)
    /\ LET node == lookup(apis[a].tree, path)
       IN  Commit(calls, IF node.type = "endpoint"
                            THEN endpoint(node.api, node.ep, input)
                         ELSE IF node.type = "nativeEndpoint"
                            THEN nativeEndpoint(a, node.ep, input)
                            ELSE notAFunction(a))
    /\ started' = started + 1

call(a, path, input) ==
    /\ started < MaxCalls
    /\ invoke(a, path, input)

\* api.<ep>(input) for an endpoint built with t.query
query(a, ep, input) ==
    /\ kindOf(ep) = "query"
    /\ call(a, <<ep>>, input)

\* api.<ep>(input) for an endpoint built with t.mutation
mutation(a, ep, input) ==
    /\ kindOf(ep) = "mutation"
    /\ call(a, <<ep>>, input)

\* await options.runtimeContext() resumes with the value the function returned
resumeBase(r) ==
    /\ r.pc = "awaitBase"
    /\ Step(r, withBase(StateOf(r), apis[r.api].override.value))

\* await options.runtimeContext() resumes with an error: getContext rejects
rejectBase(r) ==
    /\ r.pc = "awaitBase"
    /\ Step(r, [StateOf(r) EXCEPT
            !.call.pc = "done",
            !.call.trace = Append(@, Event("raised", 0, EmptyCtx)),
            !.call.result = rejected("ContextError"),
            !.inv.raised = TRUE])

\* await ext.request(...) resumes with the fragment: merge it, go on with the loop
resumeRequest(r) ==
    /\ r.pc = "awaitRequest"
    /\ Step(r, requestResolved(StateOf(r)))

\* await ext.request(...) resumes with an error: getContext rejects
rejectRequest(r) ==
    /\ r.pc = "awaitRequest"
    /\ Step(r, requestRejected(StateOf(r)))

\* The call of the handler, were it options.handler(data, ctx): a handler
\* written (ctx, args) finds no user in what it takes for its context.
callHandlerArgsFirst(st) ==
    [st EXCEPT
        !.call.pc = "awaitHandler",
        !.call.trace = Append(@, Event("handler", 0, st.call.ctx)),
        !.call.args = <<ValidatedArgs(st.call.data), ResolvedContext(st.call.ctx)>>,
        !.call.ret = handler(st.call.ep, EmptyCtx, st.call.data)]

\* The call of the handler, were the handler invoked once for its effect and
\* once more for the value returned.
callHandlerTwice(st) ==
    LET h == handlerWrite(st.call.ep, handlerWrite(st.call.ep, st.heap))
    IN  [st EXCEPT
            !.call.pc = "awaitHandler",
            !.call.trace = Append(@, Event("handler", 0, st.call.ctx)),
            !.call.args = <<ResolvedContext(st.call.ctx), ValidatedArgs(st.call.data)>>,
            !.call.ret = IF st.call.ep \in CounterEndpoints
                            THEN success(counterOf(h))
                            ELSE handler(st.call.ep, st.call.ctx, st.call.data),
            !.heap = h,
            !.inv.observed = IF st.call.ep \in CounterEndpoints
                                THEN Append(@, [ep |-> st.call.ep, value |-> counterOf(h)])
                                ELSE @]

\* return options.handler(ctx, data): the handler runs (a handler of the
\* counter test reads or increments the counter and answers success of its
\* value) and returns its promise.
callHandler(st) ==
    LET h == handlerWrite(st.call.ep, st.heap)
    IN  [st EXCEPT
            !.call.pc = "awaitHandler",
            !.call.trace = Append(@, Event("handler", 0, st.call.ctx)),
            !.call.args = <<ResolvedContext(st.call.ctx), ValidatedArgs(st.call.data)>>,
            !.call.ret = IF st.call.ep \in CounterEndpoints
                            THEN success(counterOf(h))
                            ELSE handler(st.call.ep, st.call.ctx, st.call.data),
            !.heap = h,
            !.inv.observed = IF st.call.ep \in CounterEndpoints
                                THEN Append(@, [ep |-> st.call.ep, value |-> counterOf(h)])
                                ELSE @]

\* The return, were a Failure of the handler turned into a raised error.
returnedUnwrapped(ret) ==
    IF ret.tag = "Failure" THEN rejected(ret.error) ELSE ret

\* The return, were an error raised by the handler caught into a Failure.
returnedCaught(ret) ==
    IF ret.tag = "Rejected" THEN failure(ret.error) ELSE ret

\* What the endpoint's promise settles to, given what the handler's promise
\* settled to: onSuccess, match and the endpoint each return the promise as is.
returned(ret) == ret

\* await contextProvider() resumes with the context: the handler runs
resumeContext(r) ==
    /\ r.pc = "awaitContext"
    /\ Step(r, callHandler(StateOf(r)))

\* the promise the handler returned settles, and the endpoint's promise with it
settle(r) ==
    /\ r.pc = "awaitHandler"
    /\ Step(r, [StateOf(r) EXCEPT !.call.pc = "done", !.call.result = returned(r.ret)])

\* await ext.context(fullContext) resumes with the fragment
resumeExtContext(r) ==
    /\ r.pc = "awaitExtContext"
    /\ ~compatRaises(extensions[r.idx])
    /\ Step(r, extContextResolved(StateOf(r)))

\* await ext.context(fullContext) resumes with an error: the endpoint rejects
rejectExtContext(r) ==
    /\ r.pc = "awaitExtContext"
    /\ Step(r, [StateOf(r) EXCEPT
            !.call.pc = "done",
            !.call.trace = Append(@, Event("raised", r.idx, EmptyCtx)),
            !.call.result = rejected("RequestError"),
            !.inv.raised = TRUE])

\* The caller awaits each call before it makes the next one.
awaitedQuery(a, ep, input) ==
    /\ calls = EmptyBag
    /\ query(a, ep, input)

awaitedMutation(a, ep, input) ==
    /\ calls = EmptyBag
    /\ mutation(a, ep, input)

\* createAPI is called once.
createOnly(override, raiseAt) ==
    /\ apis = <<>>
    /\ createAPI(RootFlat, override, raiseAt)

\* One activated API, any number of calls in flight on it.
NextCalls ==
    \/ \E o \in Overrides, i \in 0..MaxExts : createOnly(o, i)
    \/ \E ep \in Endpoints, input \in InputsWithDefault : query(1, ep, input)
    \/ \E ep \in Endpoints, input \in Inputs : mutation(1, ep, input)
    \/ \E r \in BagToSet(calls) : resumeBase(r)
    \/ \E r \in BagToSet(calls) : rejectBase(r)
    \/ \E r \in BagToSet(calls) : resumeRequest(r)
    \/ \E r \in BagToSet(calls) : rejectRequest(r)
    \/ \E r \in BagToSet(calls) : resumeContext(r)
    \/ \E r \in BagToSet(calls) : settle(r)

SpecCalls == Init /\ [][NextCalls]_vars

\* Several activated APIs, every call awaited before the next one is made; the
\* runtimeContext option is absent or a function (a static one differs from an
\* absent one in the base only).
NextAPIs ==
    \/ \E o \in {NoOverride, FunctionOverride}, i \in 0..MaxExts : createAPI(RootFlat, o, i)
    \/ \E a \in 1..MaxAPIs, ep \in Endpoints, input \in Inputs : awaitedQuery(a, ep, input)
    \/ \E a \in 1..MaxAPIs, ep \in Endpoints, input \in Inputs : awaitedMutation(a, ep, input)
    \/ \E r \in BagToSet(calls) : resumeBase(r)
    \/ \E r \in BagToSet(calls) : rejectBase(r)
    \/ \E r \in BagToSet(calls) : resumeRequest(r)
    \/ \E r \in BagToSet(calls) : rejectRequest(r)
    \/ \E r \in BagToSet(calls) : resumeContext(r)
    \/ \E r \in BagToSet(calls) : settle(r)

SpecAPIs == Init /\ [][NextAPIs]_vars

\* The caller awaits each call before it makes the next one.
awaitedCall(a, path, input) ==
    /\ calls = EmptyBag
    /\ call(a, path, input)

\* Several activated APIs over several roots, every call awaited; the
\* composition is defineContext(defaultContext).withExtensions([counter]) and
\* the runtimeContext option is a function.
InitTree ==
    /\ Init
    /\ extensions = <<"counter">>

NextTree ==
    \/ \E root \in Roots : createAPI(root, FunctionOverride, 0)
    \/ \E root \in NativeRoots : createNativeAPI(root, StaticOverride.value)
    \/ \E a \in 1..MaxAPIs, path \in Paths, input \in Inputs : awaitedCall(a, path, input)
    \/ \E r \in BagToSet(calls) : resumeBase(r)
    \/ \E r \in BagToSet(calls) : rejectBase(r)
    \/ \E r \in BagToSet(calls) : resumeRequest(r)
    \/ \E r \in BagToSet(calls) : rejectRequest(r)
    \/ \E r \in BagToSet(calls) : resumeContext(r)
    \/ \E r \in BagToSet(calls) : settle(r)

SpecTree == InitTree /\ [][NextTree]_vars

\* The counter test: one activated API over { getCounter, incrementCounter },
\* every call awaited before the next one is made.
createCounterAPI(override) ==
    /\ apis = <<>>
    /\ createAPI(RootCounter, override, 0)

awaitedCounterCall(ep, input) ==
    /\ calls = EmptyBag
    /\ started < MaxSeqCalls
    /\ invoke(1, <<ep>>, input)

NextSeq ==
    \/ \E o \in Overrides : createCounterAPI(o)
    \/ \E ep \in CounterEndpoints, input \in Inputs : awaitedCounterCall(ep, input)
    \/ \E r \in BagToSet(calls) : resumeBase(r)
    \/ \E r \in BagToSet(calls) : rejectBase(r)
    \/ \E r \in BagToSet(calls) : resumeRequest(r)
    \/ \E r \in BagToSet(calls) : rejectRequest(r)
    \/ \E r \in BagToSet(calls) : resumeContext(r)
    \/ \E r \in BagToSet(calls) : settle(r)

SpecSeq == Init /\ [][NextSeq]_vars

\* defineContext and defineContextCompat over the same extension list, which
\* ends with the counter extension; the runtimeContext option is absent or a
\* static object, and every call is awaited.
InitCompat ==
    /\ Init
    /\ extensions # <<>>
    /\ extensions[Len(extensions)] = "counter"

NextCompat ==
    \/ \E o \in {NoOverride, StaticOverride} : createAPI(RootFlat, o, 0)
    \/ createCompatAPI(NativeRootFlat, NoOverride)
    \/ createCompatAPI(NativeRootTagged, StaticOverride)
    \/ \E a \in 1..MaxAPIs, ep \in Endpoints, input \in Inputs : awaitedCall(a, <<ep>>, input)
    \/ \E r \in BagToSet(calls) : resumeRequest(r)
    \/ \E r \in BagToSet(calls) : rejectRequest(r)
    \/ \E r \in BagToSet(calls) : resumeExtContext(r)
    \/ \E r \in BagToSet(calls) : rejectExtContext(r)
    \/ \E r \in BagToSet(calls) : resumeContext(r)
    \/ \E r \in BagToSet(calls) : settle(r)

SpecCompat == InitCompat /\ [][NextCompat]_vars

----------------------------------------------------------------------------
(* The calls a state shows: those in flight and the one just completed *)

AllCalls ==
    BagToSet(calls) \cup (IF done.ep = "none" THEN {} ELSE {done})

Positions(c, types) ==
    {p \in DOMAIN c.trace : c.trace[p].type \in types}

Invalid(input) == parseArgs(input).tag = "Failure"

RequestExts == {i \in DOMAIN extensions : hasRequest(extensions[i])}

ContextEvents == {"runtimeContext", "base", "request", "resolved", "raised"}

\* The indices of the extensions that define init, in list order.
InitOrder ==
    SelectSeq([i \in DOMAIN extensions |-> i], LAMBDA i : hasInit(extensions[i]))

Max(S) == CHOOSE x \in S : \A y \in S : y <= x

----------------------------------------------------------------------------
\* C1: a call whose raw input fails schema validation resolves (does not
\* reject) to the Failure carrying the validation error, and its handler is
\* never invoked.
C1_InvalidInputFails ==
    \A c \in AllCalls :
        Invalid(c.input) =>
            /\ c.pc = "done"
            /\ c.result.tag = "Failure"
            /\ c.result.error = "ValidatedArgsError"
            /\ Positions(c, {"handler"}) = {}

C1_Witness ==
    /\ done.pc = "done"
    /\ done.input = "bad"
    /\ done.result = failure("ValidatedArgsError")

\* C2: a call whose raw input fails schema validation resolves no context:
\* the runtimeContext function and the requests are not invoked by it, and the
\* step that makes the call leaves every extension's state as it was.
C2_InvalidInputNoContext ==
    /\ [](\A c \in AllCalls :
            Invalid(c.input) => Positions(c, ContextEvents) = {})
    /\ [][(done'.pc = "done" /\ Invalid(done'.input)) => heap' = heap]_vars

C2_Witness ==
    /\ done.pc = "done"
    /\ done.input = "bad"
    /\ apis[done.api].override.kind = "function"
    /\ \E i \in RequestExts :
            statesGet(apis[done.api].states, extName(extensions[i])) \in DOMAIN heap

\* C3: within a call, validation comes first, then the whole context
\* resolution (the base, then every request, each resolved), then the handler.
C3_ValidateResolveHandle ==
    \A c \in AllCalls :
        /\ c.trace[1].type = "validate"
        /\ \A p \in Positions(c, ContextEvents \cup {"handler"}) : p > 1
        /\ \A p \in Positions(c, {"request"}) :
                \E q \in 1..(p - 1) : c.trace[q].type = "base"
        /\ \A p \in Positions(c, {"handler"}) :
                /\ ~Invalid(c.input)
                /\ \E q \in 1..(p - 1) : c.trace[q].type = "base"
                /\ \A i \in RequestExts :
                        \E q \in 1..(p - 1) :
                            c.trace[q].type = "resolved" /\ c.trace[q].ext = i
                /\ \A q \in Positions(c, ContextEvents) : q < p

C3_Witness ==
    /\ done.pc = "done"
    /\ apis[done.api].override.kind = "function"
    /\ Cardinality(Positions(done, {"resolved"})) = 2
    /\ Positions(done, {"handler"}) # {}

\* C4: within a call, the request of an extension is started only after the
\* requests of all the extensions listed before it have resolved, and it is
\* given a context holding every field those contributed; other calls may be
\* in flight on the same activated API.
C4_RequestsInListOrder ==
    \A c \in AllCalls :
        \A p \in Positions(c, {"request"}) :
            \A i \in RequestExts :
                i < c.trace[p].ext =>
                    \E q \in 1..(p - 1) :
                        /\ c.trace[q].type = "resolved"
                        /\ c.trace[q].ext = i
                        /\ DOMAIN c.trace[q].ctx \subseteq DOMAIN c.trace[p].ctx

C4_Witness ==
    /\ BagCardinality(calls) >= 2
    /\ \E c \in BagToSet(calls) :
            /\ c.pc = "awaitRequest"
            /\ Cardinality(Positions(c, {"request"})) = 2
            /\ "a" \in DOMAIN c.ctx

\* C5: the context given to the handler is the left fold of the shallow merge
\* over the base and the fragments in list order: a key holds the value of the
\* last fragment that defines it, else the base's; fragments {a:1} then
\* {a:2,b:3} over the default give {...default, a:2, b:3}.
C5_ContextIsLeftFold ==
    \A c \in AllCalls :
        \A p \in Positions(c, {"handler"}) :
            LET H == c.trace[p].ctx
                base == c.trace[Max(Positions(c, {"base"}))].ctx
                frags == Positions(c, {"resolved"})
                defs(k) == {q \in frags : k \in DOMAIN c.trace[q].ctx}
            IN  /\ DOMAIN H = (DOMAIN base) \cup UNION {DOMAIN c.trace[q].ctx : q \in frags}
                /\ \A k \in DOMAIN H :
                        H[k] = IF defs(k) # {} THEN c.trace[Max(defs(k))].ctx[k]
                               ELSE base[k]
                /\ (extensions = <<"frag", "frag">> /\ base = defaultContext) =>
                        H = ("u" :> 7) @@ ("a" :> 2) @@ ("b" :> 3)

C5_Witness ==
    /\ extensions = <<"frag", "frag">>
    /\ Positions(done, {"handler"}) # {}
    /\ done.ctx = ("u" :> 7) @@ ("a" :> 2) @@ ("b" :> 3)

C7_HandlerResultUnchanged ==
    \A c \in AllCalls :
        (c.pc = "done" /\ c.ret.tag \in {"Success", "Failure"}) => c.result = c.ret

C7_Witness ==
    /\ done.pc = "done"
    /\ done.ret = failure("Unauthorized")
    /\ done.result = failure("Unauthorized")

\* C8: if the handler raises, the endpoint call rejects with that error and
\* does not resolve to a Failure.
C8_HandlerErrorRejects ==
    \A c \in AllCalls :
        (c.pc = "done" /\ c.ret.tag = "Rejected") =>
            /\ c.result.tag = "Rejected"
            /\ c.result.error = c.ret.error

C8_Witness ==
    /\ done.pc = "done"
    /\ done.ep = "createUser"
    /\ done.result = rejected("HandlerError")

\* C9: if the request of an extension raises, the call rejects with the error,
\* its handler is never invoked and the requests of the extensions listed
\* after the failing one are not invoked.
C9_RequestErrorRejects ==
    \A c \in AllCalls :
        \A p \in Positions(c, {"raised"}) :
            c.trace[p].ext >= 1 =>
                /\ c.pc = "done"
                /\ c.result = rejected("RequestError")
                /\ Positions(c, {"handler"}) = {}
                /\ \A q \in Positions(c, {"request"}) : c.trace[q].ext <= c.trace[p].ext

C9_Witness ==
    /\ done.pc = "done"
    /\ done.result = rejected("RequestError")
    /\ \E p \in Positions(done, {"raised"}) :
            \E i \in RequestExts : i > done.trace[p].ext

\* C10 as stated: every createAPI call invokes the init of every extension
\* that defines one exactly once, in list order.
C10_InitOncePerCreate ==
    lastCreate.made => lastCreate.inits = InitOrder

\* C10, amended: a createAPI call that returns has invoked the init of every
\* extension that defines one exactly once, in list order; one in which an
\* init raises has invoked the inits up to that one, once each, in list order;
\* a step of an endpoint call invokes no init.
C10_InitOncePerReturnedCreate ==
    /\ [](/\ \A a \in DOMAIN apis : apis[a].inits = InitOrder
          /\ lastCreate.made =>
                IF lastCreate.returned
                    THEN lastCreate.inits = InitOrder
                    ELSE /\ lastCreate.inits # <<>>
                         /\ lastCreate.inits = SubSeq(InitOrder, 1, Len(lastCreate.inits)))
    /\ [][(started' # started \/ calls' # calls) =>
            (apis' = apis /\ ~lastCreate'.made)]_vars

C10_Witness ==
    /\ Len(apis) = 2
    /\ lastCreate.made /\ lastCreate.returned
    /\ Len(lastCreate.inits) = 2
    /\ started >= 1

----------------------------------------------------------------------------
\* The addresses of the state objects the createAPI call of API a stored.
StateAddrs(a) ==
    {apis[a].states[n] : n \in DOMAIN apis[a].states}

\* C11: two activated APIs keep separate extension state: the state objects
\* of two APIs are distinct, a step of a call on API A leaves the state
\* objects of every other API as they were, and the counter a completed call
\* on A was given is the one A's createAPI stored, not another API's.
C11_StatePerAPI ==
    /\ [](/\ \A a, b \in DOMAIN apis : a # b => StateAddrs(a) \cap StateAddrs(b) = {}
          /\ \A p \in Positions(done, {"resolved"}) :
                extensions[done.trace[p].ext] = "counter" =>
                    done.trace[p].ctx["n"] =
                        heapGet(heap, statesGet(apis[done.api].states, "cnt")))
    /\ [][\A c \in BagToSet(calls') \cup {done'} :
            \A b \in DOMAIN apis :
                (c.pc # "none" /\ b # c.api) =>
                    \A x \in StateAddrs(b) : heapGet(heap', x) = heapGet(heap, x)]_vars

C11_Witness ==
    /\ Len(apis) = 2
    /\ done.pc = "done"
    /\ done.api = 2
    /\ \E p \in Positions(done, {"resolved"}) :
            /\ extensions[done.trace[p].ext] = "counter"
            /\ done.trace[p].ctx["n"] = 1
    /\ heapGet(heap, statesGet(apis[1].states, "cnt")) = 1
    /\ heapGet(heap, statesGet(apis[2].states, "cnt")) = 1

\* The number of events of the given type and extension in the trace of call c.
Count(c, type, ext) ==
    Cardinality({p \in DOMAIN c.trace : c.trace[p].type = type /\ c.trace[p].ext = ext})

\* C12 as stated: once every call made has completed, the runtimeContext
\* function and the request of every extension have been invoked once per
\* call with valid input.
C12_OncePerValidCall ==
    (calls = EmptyBag /\ Len(apis) = 1) =>
        /\ apis[1].override.kind = "function" =>
                invoked.runtimeContext = invoked.valid
        /\ \A i \in RequestExts : invoked.request[i] = invoked.valid

\* C12, amended: nothing is cached, and an error ends the resolution.  As long
\* as no runtimeContext function and no request has raised, once every call
\* made has completed the runtimeContext function and every request have been
\* invoked once per call with valid input; in every case none is invoked more
\* often than that, a call invokes each at most once, a call that reaches its
\* handler has invoked each exactly once, and a call in which one raises has
\* invoked no request listed after the one that raised.
C12_OncePerValidCallUnlessRaised ==
    Len(apis) = 1 =>
        LET isFn == apis[1].override.kind = "function"
        IN  /\ invoked.runtimeContext <= invoked.valid
            /\ ~isFn => invoked.runtimeContext = 0
            /\ \A i \in RequestExts : invoked.request[i] <= invoked.valid
            /\ \A i, j \in RequestExts : i < j => invoked.request[j] <= invoked.request[i]
            /\ (calls = EmptyBag /\ ~invoked.raised) =>
                    /\ isFn => invoked.runtimeContext = invoked.valid
                    /\ \A i \in RequestExts : invoked.request[i] = invoked.valid
            /\ \A c \in AllCalls :
                    /\ Count(c, "runtimeContext", 0) <= 1
                    /\ \A i \in RequestExts : Count(c, "request", i) <= 1
                    /\ Positions(c, {"handler"}) # {} =>
                            /\ Count(c, "runtimeContext", 0) = (IF isFn THEN 1 ELSE 0)
                            /\ \A i \in RequestExts : Count(c, "request", i) = 1
                    /\ \A p \in Positions(c, {"raised"}) :
                            \A i \in RequestExts :
                                Count(c, "request", i) =
                                    (IF i <= c.trace[p].ext THEN 1 ELSE 0)

C12_Witness ==
    /\ calls = EmptyBag
    /\ Len(apis) = 1
    /\ apis[1].override.kind = "function"
    /\ ~invoked.raised
    /\ invoked.valid = 2
    /\ invoked.runtimeContext = 2
    /\ \E i \in RequestExts : invoked.request[i] = 2

----------------------------------------------------------------------------
(* Activation *)

\* The APIs activated by defineContext(...).withExtensions(...).createAPI.
DefineAPIs == {a \in DOMAIN apis : apis[a].builder = "defineContext"}

\* The paths of a tree that lead to a mapping, the empty path included.
MappingPaths(tree) ==
    {p \in {<<>>, <<"a">>} : lookup(tree, p).type = "mapping"}

AllPaths == Paths \cup {<<"version">>, <<"nothing">>}

\* C13 as stated: the createAPI step runs no endpoint (it validates no input
\* and invokes no handler) and invokes no runtimeContext function and no
\* request.
C13_ActivationRunsNothing ==
    lastCreate.made =>
        /\ done.pc = "none"
        /\ Positions(done, {"validate", "handler"} \cup ContextEvents) = {}

\* C14 as stated: at every nesting level the activated mapping has the keys of
\* the source mapping, in the same order, and the endpoint at a.b of
\* router({a: {b: q}}) is the endpoint at b of the activated {b: q}.
C14_ShapePreserved ==
    \A a \in DefineAPIs :
        /\ \A p \in MappingPaths(apis[a].root) :
                /\ lookup(apis[a].tree, p).type = "mapping"
                /\ lookup(apis[a].tree, p).own = lookup(apis[a].root, p).own
        /\ apis[a].root = RootNested =>
                lookup(apis[a].tree, <<"a", "b">>) = lookup(activate(RootDirect, a).res, <<"b">>)

\* C16 as stated: a key a mapping node only inherits never appears in the
\* activated mapping, and nothing can be called through it.
C16_OwnKeysOnly ==
    \A a \in DefineAPIs :
        \A p \in MappingPaths(apis[a].root) :
            \A k \in Range(lookup(apis[a].root, p).inherited) \ Range(lookup(apis[a].root, p).own) :
                /\ k \notin DOMAIN lookup(apis[a].tree, p).at
                /\ typeOf(lookup(apis[a].tree, Append(p, k))) # "function"

\* C17 as stated: a node that is neither a declaration nor a mapping (a
\* primitive, null, an endpoint activated before) is in the activated tree
\* as it is, at the same path, and the createAPI step has not run it.
C17_OthersPassThrough ==
    /\ \A a \in DefineAPIs :
            \A p \in AllPaths :
                lookup(apis[a].root, p).type \in {"primitive", "null", "endpoint"} =>
                    lookup(apis[a].tree, p) = lookup(apis[a].root, p)
    /\ lastCreate.made => done.ep = "none"

\* The APIs activated by createNativeAPI().createAPI.
NativeAPIs == {a \in DOMAIN apis : apis[a].builder = "createNativeAPI"}

IsNativeDeclaration(node) ==
    /\ node.type = "mapping"
    /\ node.own = NativeDeclaration("getUser").own

\* C15 as stated: where the root holds a declaration of the native builder,
\* also under nested routers, the activated tree holds a function, and the
\* call of it does not raise a TypeError.
C15_NativeLeavesCallable ==
    /\ \A a \in NativeAPIs :
            \A p \in Paths :
                IsNativeDeclaration(lookup(apis[a].root, p)) =>
                    typeOf(lookup(apis[a].tree, p)) = "function"
    /\ (done.pc = "done" /\ done.api \in NativeAPIs) =>
            done.result # rejected("TypeError")

----------------------------------------------------------------------------
(* The builder and the outcome types *)

\* C18: t.router returns the very object it is given: the same reference,
\* holding the same keys and values, on the builder of defineContext and on
\* the builder of createNativeAPI.
C18_RouterIsIdentity ==
    built.op = "router" =>
        /\ built.res.ref = built.arg.ref
        /\ built.res.object = Objects[built.arg.ref]

C18_Witness ==
    /\ built.op = "router"
    /\ built.arg = Reference(2)
    /\ built.res = Reference(2)

\* The extensions of the list whose functions() returns the name n.
Contributors(n) ==
    {i \in DOMAIN extensions :
        hasFunctions(extensions[i]) /\ n \in DOMAIN extFunctions(extensions[i], i)}

\* C19: t holds every function name an extension's functions() returns, and
\* for a name it is the function of the last extension of the list that
\* returns it; a name no extension returns keeps the builder's function.
C19_LaterFunctionsWin ==
    built.op = "t" =>
        /\ \A i \in DOMAIN extensions :
                hasFunctions(extensions[i]) =>
                    DOMAIN extFunctions(extensions[i], i) \subseteq DOMAIN built.res
        /\ \A n \in DOMAIN built.res :
                IF Contributors(n) # {}
                    THEN built.res[n] = BuilderFn(Max(Contributors(n)), n)
                    ELSE built.res[n] = BuilderFn(0, n)
        /\ "router" \in DOMAIN built.res

C19_Witness ==
    /\ built.op = "t"
    /\ extensions = <<"frag", "counter">>
    /\ built.res["log"] = BuilderFn(2, "log")
    /\ built.res["inc"] = BuilderFn(2, "inc")
    /\ "query" \notin DOMAIN built.res

\* C20: a value of an outcome type is of exactly one variant: success(v)
\* answers isSuccess true and isFailure false and its match calls onSuccess
\* alone, once, with v; failure(e) the other way round with e; some(v)
\* answers isSome true and isNone false and its match calls onSome alone with
\* v; none() answers isSome false and isNone true and its match calls onNone
\* alone.
C20_ExactlyOneVariant ==
    /\ built.op = "success" =>
            /\ built.isSuccess /\ ~built.isFailure
            /\ built.invoked = <<Invocation("onSuccess", built.arg)>>
    /\ built.op = "failure" =>
            /\ ~built.isSuccess /\ built.isFailure
            /\ built.invoked = <<Invocation("onFailure", built.arg)>>
    /\ built.op = "some" =>
            /\ built.isSome /\ ~built.isNone
            /\ built.invoked = <<Invocation("onSome", built.arg)>>
    /\ built.op = "none()" =>
            /\ ~built.isSome /\ built.isNone
            /\ Len(built.invoked) = 1
            /\ built.invoked[1].handler = "onNone"

C20_Witness ==
    /\ built.op = "failure"
    /\ built.arg = Undefined
    /\ built.isFailure
    /\ built.invoked = <<Invocation("onFailure", Undefined)>>

----------------------------------------------------------------------------
(* C21 *)

\* The calls whose handler has been invoked.
Handled ==
    {c \in AllCalls : Positions(c, {"handler"}) # {}}

----------------------------------------------------------------------------
(* C22 *)

\* C22: every Result an endpoint resolves to has a boolean field ok that a
\* caller can branch on: if (result.ok) takes the true branch exactly when the
\* result is a Success, whose value holds the handler's output, and the false
\* branch exactly when it is a Failure, whose error holds the error.
C22_OkTellsSuccess ==
    (done.pc = "done" /\ done.result.tag \in {"Success", "Failure"}) =>
        /\ "ok" \in ownKeys(done.result)
        /\ truthy(get(done.result, "ok")) <=> isSuccess(done.result)

----------------------------------------------------------------------------
(* C23 *)

\* The number of handlers of incrementCounter among the first k handlers run.
Increments(k) ==
    Cardinality({j \in 1..k : invoked.observed[j].ep = "incrementCounter"})

\* C23: when every call on one activated API is awaited before the next one
\* is made, the handlers run one per call in call order, and each observes
\* exactly the effects of the handlers run before it: a query answers the
\* number of increments made by earlier calls, a mutation that number plus
\* its own increment, and the endpoint resolves to what its handler answered.
C23_HandlersInCallOrder ==
    /\ Len(invoked.observed) <= started
    /\ counterOf(heap) = Increments(Len(invoked.observed))
    /\ \A k \in DOMAIN invoked.observed :
            invoked.observed[k].value = Increments(k)
    /\ (done.pc = "done" /\ done.result.tag = "Success") =>
            /\ invoked.observed # <<>>
            /\ invoked.observed[Len(invoked.observed)].ep = done.ep
            /\ done.result.value = invoked.observed[Len(invoked.observed)].value

\* The sequence query, mutation, query has answered 0, 1 and 1.
C23_Witness ==
    /\ started = 3
    /\ invoked.observed = <<[ep |-> "getCounter", value |-> 0],
                            [ep |-> "incrementCounter", value |-> 1],
                            [ep |-> "getCounter", value |-> 1]>>
    /\ done.pc = "done"
    /\ done.ep = "getCounter"
    /\ done.result.tag = "Success"
    /\ done.result.value = 1

----------------------------------------------------------------------------
(* C24 *)

\* The positions before p in the trace of call c at which c itself put key k
\* in its context: its base, or a fragment one of its own requests resolved to.
OwnWrites(c, p, k) ==
    {q \in Positions(c, {"base", "resolved"}) : q < p /\ k \in DOMAIN c.trace[q].ctx}

\* The fragments of the counter extension that call c has merged.
CounterFragments(c) ==
    {c.trace[q].ctx["n"] : q \in {x \in Positions(c, {"resolved"}) : "n" \in DOMAIN c.trace[x].ctx}}

\* C24: whatever the interleaving of the calls in flight on one activated
\* API, the context a call gives to a request or to its handler holds only
\* what that call put there (its base and the fragments its own requests
\* returned, each merged right after the request that produced it), the
\* handler receives that context, and a fragment made for one call (a value of
\* the counter, which differs from request to request) is in no other call.
C24_ContextPerCall ==
    /\ \A c \in AllCalls :
        /\ \A p \in Positions(c, {"request", "handler"}) :
                \A k \in DOMAIN c.trace[p].ctx :
                    /\ OwnWrites(c, p, k) # {}
                    /\ c.trace[p].ctx[k] = c.trace[Max(OwnWrites(c, p, k))].ctx[k]
        /\ \A q \in Positions(c, {"resolved"}) :
                /\ q - 1 \in Positions(c, {"request"})
                /\ c.trace[q - 1].ext = c.trace[q].ext
        /\ \A p \in Positions(c, {"handler"}) :
                c.args[1] = ResolvedContext(c.trace[p].ctx)
    /\ \A c1, c2 \in AllCalls :
            c1 # c2 => CounterFragments(c1) \cap CounterFragments(c2) = {}
    /\ \A c \in BagToSet(calls) :
            CounterFragments(c) # {} => CopiesIn(c, calls) = 1

\* Two calls are in flight with different fragments of the counter, one of
\* them at its handler while the other has yet to be given its context.
C24_Witness ==
    \E c1, c2 \in BagToSet(calls) :
        /\ c1.pc = "awaitHandler"
        /\ c2.pc = "awaitContext"
        /\ CounterFragments(c1) # {}
        /\ CounterFragments(c2) # {}
        /\ "a" \in DOMAIN c1.ctx

----------------------------------------------------------------------------
(* C25 *)

\* C25: the declarations of one root placed in several createAPI activations
\* stay what they were, and the endpoint activation A made of a declaration
\* resolves its context through A: its base is A's runtimeContext (the
\* function is invoked exactly when A has one) or the default context, and
\* the state its requests are given is the one A's init calls returned,
\* whatever other activations exist and in whatever order they were made or
\* called.
C25_BoundToOwnActivation ==
    /\ \A a \in DOMAIN apis :
        /\ apis[a].root = RootFlat
        /\ \A ep \in Endpoints : lookup(apis[a].tree, <<ep>>) = Endpoint(a, ep)
    /\ \A c \in AllCalls :
        LET o == apis[c.api].override
        IN  /\ (Positions(c, {"runtimeContext"}) # {}) <=>
                    (o.kind = "function" /\ ~Invalid(c.input))
            /\ \A p \in Positions(c, {"base"}) :
                    c.trace[p].ctx = IF o.kind = "function" THEN o.value ELSE defaultContext
            /\ \A p \in Positions(c, {"request"}) :
                    /\ c.trace[p].state =
                            statesGet(apis[c.api].states, extName(extensions[c.trace[p].ext]))
                    /\ c.trace[p].state \in {NoAddr} \cup StateAddrs(c.api)

\* A call on the first activation has completed with its own base after a
\* second activation of the same declarations, with another runtimeContext
\* option, was made and called.
C25_Witness ==
    /\ Len(apis) = 2
    /\ apis[1].override = NoOverride
    /\ apis[2].override = FunctionOverride
    /\ extensions = <<"counter">>
    /\ heapGet(heap, <<2, 1>>) = 1
    /\ done.pc = "done"
    /\ done.api = 1
    /\ done.result = success("id1")
    /\ done.ctx = defaultContext @@ ("n" :> 1)

----------------------------------------------------------------------------
(* C26 *)

\* C26: the handler's args are the schema's validated output, not the raw
\* input of the call: for an input the schema transforms ("ID1", lower-cased)
\* or completes with a default ("Alice", role "user") the handler is given the
\* transformed or completed value, and a handler that answers success(args)
\* makes the call resolve to it.
C26_HandlerGetsSchemaOutput ==
    \A c \in Handled :
        /\ c.data = parseArgs(c.input).value
        /\ c.args[2] = ValidatedArgs(schemaOutput(c.input))
        /\ c.input \in {"ID1", "Alice"} => c.args[2].data # c.input
        /\ (c.ep = "getUser" /\ "u" \in DOMAIN c.ctx) =>
                c.ret = success(schemaOutput(c.input))

\* A call with the input that lacks the defaulted field has resolved to the
\* value with the default filled in.
C26_Witness ==
    /\ done.pc = "done"
    /\ done.input = "Alice"
    /\ done.result = success("Alice,user")
    /\ done.args[2] = ValidatedArgs("Alice,user")

----------------------------------------------------------------------------
(* C27 *)

DistinctNames ==
    \A i, j \in DOMAIN extensions :
        i # j => extName(extensions[i]) # extName(extensions[j])

\* C27: when the names of the extensions are pairwise distinct, every call on
\* an activated API gives to the request of extension i, as its state, the
\* object the init of extension i returned in that createAPI (the i-th object
\* allocated by it), and undefined when extension i has no init; it is the
\* same object on every call, so the counter it holds has been incremented
\* once for every request invoked so far.
C27_RequestGetsOwnInitState ==
    DistinctNames =>
        /\ \A c \in AllCalls :
                \A p \in Positions(c, {"request"}) :
                    LET i == c.trace[p].ext
                    IN  c.trace[p].state =
                            IF hasInit(extensions[i]) THEN <<c.api, i>> ELSE NoAddr
        /\ \A a \in DOMAIN apis :
                \A i \in DOMAIN extensions :
                    hasInit(extensions[i]) =>
                        /\ <<a, i>> \in DOMAIN heap
                        /\ heap[<<a, i>>] =
                                initValue(extensions[i])
                                    + (IF extensions[i] = "counter"
                                        THEN invoked.request[i] ELSE 0)

\* With [frag, counter], a second call has had its requests run: frag was
\* given undefined, counter the object its init returned, which the first
\* call had written to.
C27_Witness ==
    /\ extensions = <<"frag", "counter">>
    /\ done.pc = "done"
    /\ done.result.tag = "Success"
    /\ done.trace[Max(Positions(done, {"request"}))].state = <<1, 2>>
    /\ \E p \in Positions(done, {"request"}) : done.trace[p].state = NoAddr
    /\ done.ctx["n"] = 2

----------------------------------------------------------------------------
(* C28 *)

\* The context call c has accumulated before position p of its trace: its
\* base with the fragments resolved so far merged in, in order.
Accumulated(c, p) ==
    [k \in UNION {DOMAIN c.trace[q].ctx :
                    q \in {x \in Positions(c, {"base", "resolved"}) : x < p}}
        |-> c.trace[Max(OwnWrites(c, p, k))].ctx[k]]

\* C28: under defineContextCompat(...).withExtensions(exts) an old-style
\* extension keeps its contract: an endpoint made with the builder can be
\* called, and in every call the request of each extension is invoked with
\* the extension's persistent state as first argument and the context
\* accumulated so far as second argument, and the fragment it returns is in
\* the context given to the handler.
C28_CompatKeepsRequestContract ==
    /\ (done.pc = "done" /\ done.api \in DOMAIN apis
            /\ apis[done.api].builder = "defineContextCompat") =>
                done.result # rejected("TypeError")
    /\ \A c \in AllCalls :
            apis[c.api].builder = "defineContextCompat" =>
                /\ \A p \in Positions(c, {"request"}) :
                        /\ c.trace[p].state # ContextAsState
                        /\ c.trace[p].state =
                                statesGet(apis[c.api].states,
                                          extName(extensions[c.trace[p].ext]))
                        /\ c.trace[p].ctx = Accumulated(c, p)
                /\ \A p \in Positions(c, {"handler"}) :
                        /\ c.trace[p].ctx = Accumulated(c, p)
                        /\ \A i \in RequestExts :
                                \E q \in Positions(c, {"resolved"}) : c.trace[q].ext = i

----------------------------------------------------------------------------
(* C29 *)

\* C29: the promise of tryCatchAsync(fn), and of from(fn), never rejects: it
\* resolves to Failure(e) when fn throws e or returns a promise that rejects
\* with e, and to Success(v) when fn returns v or a promise that resolves to
\* v; tryCatch(fn) never throws: it returns Failure(e) when fn throws e and
\* Success of what fn returned otherwise.
C29_NeverRaises ==
    /\ built.op \in {"tryCatchAsync", "from"} =>
            /\ built.res.tag \in {"Success", "Failure"}
            /\ built.arg.does \in {"throws", "rejects"} =>
                    built.res = failure(built.arg.with)
            /\ built.arg.does \in {"returns", "resolves"} =>
                    built.res = success(built.arg.with)
    /\ built.op = "tryCatch" =>
            /\ built.res.tag \in {"Success", "Failure"}
            /\ built.arg.does = "throws" => built.res = failure(built.arg.with)
            /\ built.arg.does = "returns" => built.res = success(built.arg.with)
            /\ built.arg.does \in {"resolves", "rejects"} =>
                    /\ built.res.tag = "Success"
                    /\ built.res.value = promiseOf(built.arg)

\* from(fn) has resolved to a Failure for a function whose promise rejected.
C29_Witness ==
    /\ built.op = "from"
    /\ built.arg = [does |-> "rejects", with |-> "Unauthorized"]
    /\ built.res = failure("Unauthorized")

----------------------------------------------------------------------------
(* C30 *)

====
